---- MODULE Spec2Model ----
(***************************************************************************)
(* Model of the resilient-fetch core of the spider repository              *)
(* (src/downloader.py): the retry decorator, ProxyItem, ProxyManager and   *)
(* Downloader.  Python values are modelled as follows: None is the string  *)
(* "None"; a ProxyItem object is a record carrying a unique id; the        *)
(* gevent LifoQueue is a sequence whose last element is the top.           *)
(***************************************************************************)
EXTENDS Integers, Sequences, FiniteSets, TLC

VARIABLES
    proxy_max_num,   \* ProxyManager.proxy_max_num
    maxsize,         \* ProxyManager.maxsize
    proxy_queue,     \* ProxyManager.proxy_queue (LifoQueue), top = last element
    proxy_list,      \* ProxyManager.proxy_list (raw candidates), once assigned
    proxy_list_set,  \* whether the attribute proxy_list has been assigned
    black_peoxies,   \* ProxyManager.black_peoxies
    nitems,          \* number of ProxyItem objects constructed so far
    held,            \* ProxyItem objects a direct caller of the pool holds
    ret,             \* outcome of the latest direct call of the pool / item API
    dl,              \* the Downloader's attributes
    tasks            \* the runs of the retry wrapper: one per call in progress

poolvars == <<proxy_max_num, maxsize, proxy_queue, proxy_list, proxy_list_set,
              black_peoxies, nitems>>
vars == <<poolvars, held, ret, dl, tasks>>

----------------------------------------------------------------------------
(* Bounds of the model *)

\* ProxyItem objects a direct caller of the pool lets it construct
MaxItems == 2
\* direct get_proxy calls a caller makes on one ProxyItem
MaxCalls == 3
\* largest configured proxy_max_num / available_proxy
MaxConf == 2
\* largest `tries` given to the retry decorator
MaxTries == 3
\* calls of Downloader.download in one behaviour, concurrent or in sequence
NTasks == 2

(* Program constants *)

\* LifoQueue(maxsize=self.maxsize * 5)
QueueFactor == 5
\* retry(ExceptionToCheck, tries=2, delay=1, backoff=2)
DefaultTries == 2
DefaultDelay == 1
DefaultBackoff == 2
\* setting.PROXY_MAX_NUM, the process-wide default reuse cap
SettingProxyMaxNum == 2
\* setting.HTTP_TIMEOUT, the configured request timeout in seconds
SettingHttpTimeout == 30
\* `if timeout > 120 or timeout <= 0: self.timeout = 30`
TimeoutLimit == 120
TimeoutFallback == 30
\* gevent.Timeout(self.timeout + 1)
GuardSlack == 1

None == "None"
NoExc == "none"

----------------------------------------------------------------------------
(* The external proxy source: proxy.get_proxy(url) returns a list of       *)
(* (scheme, host, port) tuples, possibly empty.                            *)

Candidates == << <<"http", "h1", 80>>, <<"https", "h2", 443>>, <<"http", "h3", 8080>> >>

\* the answers the source gives: nothing, or a full batch
SourceBatches == { <<>>, Candidates }

\* "{}:{}".format(host, port)
FormatHostPort(host, port) ==
    CASE host = "h1" /\ port = 80   -> "h1:80"
      [] host = "h2" /\ port = 443  -> "h2:443"
      [] host = "h3" /\ port = 8080 -> "h3:8080"
      [] OTHER -> "?"

\* list.pop(index), 0-based index: the list without that element
ListPop(list, index) ==
    SubSeq(list, 1, index) \o SubSeq(list, index + 2, Len(list))

----------------------------------------------------------------------------
(* ProxyItem *)

NoItem == [id |-> 0, proxy_type |-> None, host |-> None, proxy_counter |-> 0,
           max_reused_num |-> 0, calls |-> 0]

\* ProxyItem.__init__; id is the identity of the new object, calls counts
\* the get_proxy calls made on it (history)
ProxyItem(proxy_type, host, pmax, id) ==
    [id |-> id,
     proxy_type |-> IF proxy_type = None THEN "http" ELSE proxy_type,
     host |-> host,
     proxy_counter |-> 0,
     max_reused_num |-> IF pmax <= 0 THEN SettingProxyMaxNum ELSE pmax,
     calls |-> 0]

ItemGetProxyOffByOne(item) ==
    IF item.proxy_counter > item.max_reused_num
    THEN [pair |-> <<None, None>>, item |-> [item EXCEPT !.calls = @ + 1]]
    ELSE [pair |-> <<item.proxy_type, item.host>>,
          item |-> [item EXCEPT !.proxy_counter = @ + 1, !.calls = @ + 1]]

\* ProxyItem.get_proxy: the returned pair and the item afterwards
ItemGetProxy(item) ==
    IF item.proxy_counter >= item.max_reused_num
    THEN [pair |-> <<None, None>>, item |-> [item EXCEPT !.calls = @ + 1]]
    ELSE [pair |-> <<item.proxy_type, item.host>>,
          item |-> [item EXCEPT !.proxy_counter = @ + 1, !.calls = @ + 1]]

\* ProxyItem.is_valid
is_valid(item) == item.proxy_counter < item.max_reused_num

----------------------------------------------------------------------------
(* ProxyManager *)

\* int(random.random() * n): any index 0..n-1, and 0 when n = 0
RandomIndexes(n) == IF n = 0 THEN {0} ELSE 0..(n - 1)

\* lines 136-143: pop the chosen candidate; an IndexError (empty list) is
\* swallowed by the bare except and yields (None, None)
PopCandidate(list, index) ==
    IF index >= Len(list)
    THEN [exc |-> NoExc, pair |-> <<None, None>>, proxy_list |-> list]
    ELSE LET c == list[index + 1]
         IN [exc |-> NoExc,
             pair |-> <<c[1], FormatHostPort(c[2], c[3])>>,
             proxy_list |-> ListPop(list, index)]

RandomChoiceProxyFiltered(list, listset) ==
    IF ~listset
    THEN {[exc |-> "AttributeError", pair |-> <<None, None>>, proxy_list |-> list]}
    ELSE LET reloaded == IF Len(list) <= 1 THEN SourceBatches ELSE {list}
             all == UNION { { PopCandidate(l, i) : i \in RandomIndexes(Len(l)) } : l \in reloaded }
         IN { o \in all : o.pair[2] \notin black_peoxies }

\* ProxyManager.random_choice_proxy: every outcome the source's answer and
\* the random draw allow.  Reading self.proxy_list before init_proxy_queue
\* assigned it raises AttributeError.
RandomChoiceProxy(list, listset) ==
    IF ~listset
    THEN {[exc |-> "AttributeError", pair |-> <<None, None>>, proxy_list |-> list]}
    ELSE LET reloaded == IF Len(list) <= 1 THEN SourceBatches ELSE {list}
         IN UNION { { PopCandidate(l, i) : i \in RandomIndexes(Len(l)) } : l \in reloaded }

\* ProxyManager.put_proxy: put(block=False) on LifoQueue(maxsize * 5); Full is
\* caught and logged
PutProxy(queue, item, size) ==
    IF Len(queue) < size * QueueFactor THEN Append(queue, item) ELSE queue

\* ProxyManager.get_proxy, else branch (lines 195-199): the popped item is
\* asked proxy_item.isvalid(); ProxyItem defines is_valid only, so the call
\* raises AttributeError and the popped item is lost
PoppedItemOutcome(item) == [exc |-> "AttributeError", item |-> NoItem]

\* ProxyManager.get_proxy: every outcome, as the raised exception, the item
\* returned and the pool fields afterwards
GetProxy(queue, list, listset, pmax, newid) ==
    IF queue # <<>>
    THEN LET o == PoppedItemOutcome(queue[Len(queue)])
         IN {[exc |-> o.exc, item |-> o.item,
              proxy_queue |-> SubSeq(queue, 1, Len(queue) - 1),
              proxy_list |-> list]}
    ELSE { IF c.exc # NoExc
           THEN [exc |-> c.exc, item |-> NoItem, proxy_queue |-> queue,
                 proxy_list |-> c.proxy_list]
           ELSE [exc |-> NoExc,
                 item |-> ProxyItem(c.pair[1], c.pair[2], pmax, newid),
                 proxy_queue |-> queue, proxy_list |-> c.proxy_list]
           : c \in RandomChoiceProxy(list, listset) }

\* one iteration of the loop of init_proxy_queue (lines 167-170)
InitQueueStep(st, pmax, size) ==
    { IF c.pair[1] # None /\ c.pair[2] # None
      THEN LET new == ProxyItem(c.pair[1], c.pair[2], pmax, st.nitems + 1)
           IN [proxy_list |-> c.proxy_list,
               proxy_queue |-> PutProxy(st.proxy_queue, new, size),
               nitems |-> st.nitems + 1]
      ELSE [st EXCEPT !.proxy_list = c.proxy_list]
      : c \in RandomChoiceProxy(st.proxy_list, TRUE) }

RECURSIVE InitQueueLoop(_, _, _, _)
\* `for _ in range(self.maxsize)`: the states after k more iterations
InitQueueLoop(k, st, pmax, size) ==
    IF k = 0 THEN {st}
    ELSE UNION { InitQueueLoop(k - 1, s2, pmax, size) : s2 \in InitQueueStep(st, pmax, size) }

\* ProxyManager.init_proxy_queue with `batch` the source's first answer
InitProxyQueue(batch, queue, pmax, size, n) ==
    IF batch = <<>>
    THEN {[proxy_list |-> batch, proxy_queue |-> queue, nitems |-> n]}
    ELSE InitQueueLoop(size, [proxy_list |-> batch, proxy_queue |-> queue, nitems |-> n],
                       pmax, size)

\* ProxyManager.update_black_peoxies: the blacklist afterwards
UpdateBlack(black, host) == IF host # None THEN black \cup {host} ELSE black

----------------------------------------------------------------------------
(* Downloader.__init__ (lines 207-236) *)

\* the header names that occur; a header map gives each its value, None
\* when the map has no such key
HeaderKeys == {"Accept", "User-Agent", "Referer"}

\* the empty dict
NoHeaders == [k \in HeaderKeys |-> None]

\* self.headers as constructed (lines 212-215)
DefaultHeaders ==
    [k \in HeaderKeys |->
        CASE k = "Accept"     -> "text/html"
          [] k = "User-Agent" -> "setting.USER_AGENT"
          [] OTHER            -> None]

\* d.update(u) on header maps: d afterwards
DictUpdate(d, u) == [k \in HeaderKeys |-> IF u[k] # None THEN u[k] ELSE d[k]]

TimeoutClampExclusive(timeout) ==
    IF timeout >= TimeoutLimit \/ timeout <= 0 THEN TimeoutFallback ELSE timeout

\* lines 219-222: self.timeout
TimeoutClamp(timeout) ==
    IF timeout > TimeoutLimit \/ timeout <= 0 THEN TimeoutFallback ELSE timeout

\* the attributes of a Downloader constructed with proxy_enable = pe and
\* timeout = timeout; timeout_arg remembers the argument
NewDownloader(pe, timeout) ==
    [proxy_enable |-> pe,
     keep_status_code |-> FALSE,
     headers |-> DefaultHeaders,
     timeout |-> TimeoutClamp(timeout),
     timeout_arg |-> timeout]

----------------------------------------------------------------------------
(* The retry decorator (lines 37-66) *)

Tasks == 1..NTasks

\* an exception object: its class and the invocation that raised it
NoException == [kind |-> "none", n |-> 0]

NoResponse == [code |-> 0, closed |-> FALSE, proxies |-> <<None, None>>]

\* a request: a bare URL string (isdict false), or a dict with the given
\* keys ("meta_keep" stands for meta = {"keep_status_code": True}) and the
\* given value under "method" (None when the key is absent)
NoRequest == [isdict |-> FALSE, keys |-> {}, method |-> None]

\* The exception classes that occur, and isinstance(e, cls):
\* requests' Timeout, HTTPError and RequestException derive from Exception,
\* gevent.Timeout derives from BaseException only.
RequestExceptions == {"RequestException", "Timeout", "HTTPError"}

IsInstance(kind, cls) ==
    CASE cls = "BaseException"    -> TRUE
      [] cls = "Exception"        -> kind # "GeventTimeout"
      [] cls = "RequestException" -> kind \in RequestExceptions
      [] OTHER                    -> kind = cls

\* a run of f_retry that has not been called yet; tries, delay, backoff and
\* check are the decorator's arguments; calls and slept record the history
\* of the run (invocations of f, and the argument of each time.sleep)
IdleTask(tries, delay, backoff, check) ==
    [pc |-> "idle", tries |-> tries, delay |-> delay, backoff |-> backoff,
     check |-> check,
     mtries |-> 0, mdelay |-> 0, lastException |-> NoException,
     pending |-> NoException, calls |-> 0, slept |-> <<>>,
     result |-> NoResponse, raised |-> NoException,
     request |-> NoRequest, kwargs |-> {}, method |-> None,
     headers |-> NoHeaders, caller_headers |-> NoHeaders,
     options |-> {}, sent |-> NoHeaders, keep_status_code |-> FALSE,
     timeout |-> 0, guard_seconds |-> 0,
     proxy_item |-> NoItem, proxies |-> <<None, None>>,
     guard |-> "none", started |-> 0, cancelled |-> 0, response |-> NoResponse]

RetryEnterExtraTry(st) ==
    [st EXCEPT !.pc = "loop", !.mtries = st.tries + 1, !.mdelay = st.delay]

\* line 49: mtries, mdelay = tries, delay
RetryEnter(st) ==
    [st EXCEPT !.pc = "loop", !.mtries = st.tries, !.mdelay = st.delay]

\* line 50: while mtries > 0
RetryContinues(st) == st.mtries > 0

RetryCaughtKeepsFirst(st, e) ==
    IF IsInstance(e.kind, st.check)
    THEN [st EXCEPT !.pc = "sleep",
                    !.pending = IF st.lastException = NoException THEN e
                                ELSE st.lastException,
                    !.slept = Append(@, st.mdelay)]
    ELSE [st EXCEPT !.pc = "raised", !.raised = e]

RetryCaughtAll(st, e) ==
    [st EXCEPT !.pc = "sleep", !.pending = e, !.slept = Append(@, st.mdelay)]

RetryCaughtNoLastSleep(st, e) ==
    IF IsInstance(e.kind, st.check)
    THEN IF st.mtries = 1
         THEN [st EXCEPT !.pc = "loop", !.mtries = @ - 1, !.mdelay = @ * st.backoff,
                         !.lastException = e]
         ELSE [st EXCEPT !.pc = "sleep", !.pending = e, !.slept = Append(@, st.mdelay)]
    ELSE [st EXCEPT !.pc = "raised", !.raised = e]

\* lines 53-56: f raised e; when e is an ExceptionToCheck it is logged and
\* the run sleeps mdelay seconds, otherwise e leaves f_retry at once
RetryCaught(st, e) ==
    IF IsInstance(e.kind, st.check)
    THEN [st EXCEPT !.pc = "sleep", !.pending = e, !.slept = Append(@, st.mdelay)]
    ELSE [st EXCEPT !.pc = "raised", !.raised = e]

RetryWakeAdditive(st) ==
    [st EXCEPT !.pc = "loop", !.mtries = @ - 1, !.mdelay = @ + st.backoff,
               !.lastException = st.pending, !.pending = NoException]

\* lines 57-59, after the sleep
RetryWake(st) ==
    [st EXCEPT !.pc = "loop", !.mtries = @ - 1, !.mdelay = @ * st.backoff,
               !.lastException = st.pending, !.pending = NoException]

\* line 52: return f(...)
RetryReturn(st, r) == [st EXCEPT !.pc = "done", !.result = r]

\* line 62: raise lastException
RetryExhausted(st) == [st EXCEPT !.pc = "raised", !.raised = st.lastException]

----------------------------------------------------------------------------
(* State after ProxyManager.__init__ (lines 118-123).  proxy_max_num and   *)
(* available_proxy are the configured, positive values.                    *)

NoRet == [op |-> "none", exc |-> NoExc, id |-> 0, pair |-> <<None, None>>]

PoolInit ==
    /\ proxy_max_num \in 1..MaxConf
    /\ maxsize \in 1..MaxConf
    /\ proxy_queue = <<>>
    /\ proxy_list = <<>>
    /\ proxy_list_set = FALSE
    /\ black_peoxies = {}
    /\ nitems = 0

QueueItems == { proxy_queue[i] : i \in 1..Len(proxy_queue) }

\* every ProxyItem object a direct caller or the store references
LiveItems == held \cup QueueItems

(* Direct calls of the pool and item API by a caller that holds the        *)
(* records it acquired until it releases them.                             *)

\* caller: manager.init_proxy_queue(), once, by the owner of the pool
CallInitProxyQueue ==
    /\ ~proxy_list_set
    /\ nitems + maxsize <= MaxItems
    /\ \E batch \in SourceBatches :
         \E o \in InitProxyQueue(batch, proxy_queue, proxy_max_num, maxsize, nitems) :
            /\ proxy_list' = o.proxy_list
            /\ proxy_queue' = o.proxy_queue
            /\ nitems' = o.nitems
    /\ proxy_list_set' = TRUE
    /\ ret' = [NoRet EXCEPT !.op = "init_proxy_queue"]
    /\ UNCHANGED <<proxy_max_num, maxsize, black_peoxies, held, dl, tasks>>

\* caller: item = manager.get_proxy()
CallGetProxy ==
    /\ nitems < MaxItems
    /\ \E o \in GetProxy(proxy_queue, proxy_list, proxy_list_set, proxy_max_num,
                         nitems + 1) :
         /\ proxy_queue' = o.proxy_queue
         /\ proxy_list' = o.proxy_list
         /\ nitems' = IF o.item # NoItem THEN nitems + 1 ELSE nitems
         /\ held' = IF o.exc = NoExc /\ o.item # NoItem THEN held \cup {o.item} ELSE held
         /\ ret' = [NoRet EXCEPT !.op = "get_proxy", !.exc = o.exc, !.id = o.item.id]
    /\ UNCHANGED <<proxy_max_num, maxsize, proxy_list_set, black_peoxies, dl, tasks>>

\* caller: manager.put_proxy(item), giving the record up
CallPutProxy(item) ==
    /\ item \in held
    /\ proxy_queue' = PutProxy(proxy_queue, item, maxsize)
    /\ held' = held \ {item}
    /\ ret' = [NoRet EXCEPT !.op = "put_proxy", !.id = item.id]
    /\ UNCHANGED <<proxy_max_num, maxsize, proxy_list, proxy_list_set, black_peoxies, nitems,
                   dl, tasks>>

\* caller: item.get_proxy() on a record it holds
CallItemGetProxy(item) ==
    /\ item \in held
    /\ item.calls < MaxCalls
    /\ LET o == ItemGetProxy(item)
       IN /\ held' = (held \ {item}) \cup {o.item}
          /\ ret' = [NoRet EXCEPT !.op = "item_get_proxy", !.id = item.id, !.pair = o.pair]
    /\ UNCHANGED <<poolvars, dl, tasks>>

\* caller: manager.update_black_peoxies(host)
CallUpdateBlack(host) ==
    /\ black_peoxies' = UpdateBlack(black_peoxies, host)
    /\ \E c \in RandomChoiceProxy(proxy_list, proxy_list_set) :
         /\ proxy_list' = c.proxy_list
         /\ ret' = [NoRet EXCEPT !.op = "update_black_peoxies", !.exc = c.exc, !.pair = c.pair]
    /\ UNCHANGED <<proxy_max_num, maxsize, proxy_queue, proxy_list_set, nitems, held,
                   dl, tasks>>

\* the arguments a caller passes to update_black_peoxies
BlackHosts == {"h1:80", None}

InitPool ==
    /\ PoolInit
    /\ held = {}
    /\ ret = NoRet
    /\ dl = NewDownloader(TRUE, SettingHttpTimeout)
    /\ tasks = [t \in Tasks |-> IdleTask(DefaultTries, DefaultDelay, DefaultBackoff, "Exception")]

NextPool ==
    \/ CallInitProxyQueue
    \/ CallGetProxy
    \/ \E item \in held : CallPutProxy(item)
    \/ \E item \in held : CallItemGetProxy(item)

SpecPool == InitPool /\ [][NextPool]_vars

----------------------------------------------------------------------------
(* Properties of ProxyItem and ProxyManager, checked under SpecPool *)

Min(a, b) == IF a < b THEN a ELSE b

\* the counter of an item from one state to the next
C4_CounterStep ==
    \A a \in LiveItems : \A b \in LiveItems' :
        a.id = b.id =>
            \/ b.proxy_counter = a.proxy_counter
            \/ /\ b.proxy_counter = a.proxy_counter + 1
               /\ ret'.op = "item_get_proxy"
               /\ ret'.id = a.id
               /\ ret'.pair = <<a.proxy_type, a.host>>

\* C4: every ProxyItem has 0 <= proxy_counter <= max_reused_num in every
\* reachable state, and from one state to the next the counter of an item
\* either stays or grows by exactly one, the latter only in a step that is
\* a ProxyItem.get_proxy call returning the item's identity.
C4_CounterBounded ==
    /\ [](\A it \in LiveItems : 0 <= it.proxy_counter /\ it.proxy_counter <= it.max_reused_num)
    /\ [][C4_CounterStep]_vars

C4_Witness ==
    /\ ret.op = "item_get_proxy"
    /\ ret.pair # <<None, None>>
    /\ \E it \in held : it.id = ret.id /\ it.proxy_counter = it.max_reused_num
                        /\ it.max_reused_num > 1

\* what a get_proxy call on a held item returns
C5_CallResult ==
    \A a \in held : \A b \in held' :
        (a.id = b.id /\ b.calls = a.calls + 1) =>
            /\ ret'.op = "item_get_proxy" /\ ret'.id = a.id
            /\ IF b.calls <= a.max_reused_num
               THEN ret'.pair = <<a.proxy_type, a.host>>
               ELSE ret'.pair = <<None, None>> /\ b.proxy_counter = a.proxy_counter

\* C5: for an item with max_reused_num = m, after n get_proxy calls the
\* counter is min(n, m); the call numbered n returns the identity when
\* n <= m and (None, None), leaving the counter unchanged, when n > m;
\* is_valid is true exactly while fewer than m calls were made.
C5_TryUseExhausts ==
    /\ [](\A it \in LiveItems :
            /\ it.proxy_counter = Min(it.calls, it.max_reused_num)
            /\ is_valid(it) <=> (it.calls < it.max_reused_num))
    /\ [][C5_CallResult]_vars

C5_Witness ==
    /\ ret.op = "item_get_proxy"
    /\ ret.pair = <<None, None>>
    /\ \E it \in held : it.id = ret.id /\ it.calls > it.max_reused_num + 1 /\ ~is_valid(it)

\* C6 (as claimed): the LIFO store never holds more than N = maxsize records.
C6_StoreWithinN == Len(proxy_queue) <= maxsize

\* one release or one Acquire on the LIFO store
C7_LifoStep ==
    /\ (ret'.op = "put_proxy" /\ Len(proxy_queue) < maxsize
          /\ \E it \in held : it.id = ret'.id /\ is_valid(it)) =>
          /\ Len(proxy_queue') = Len(proxy_queue) + 1
          /\ proxy_queue'[Len(proxy_queue')].id = ret'.id
    /\ (ret'.op = "get_proxy" /\ proxy_queue # <<>>) =>
          /\ ret'.exc = NoExc
          /\ ret'.id = proxy_queue[Len(proxy_queue)].id
          /\ proxy_queue' = SubSeq(proxy_queue, 1, Len(proxy_queue) - 1)
          /\ proxy_queue[Len(proxy_queue)] \in held'
          /\ nitems' = nitems

\* C7 (as claimed): a release with spare capacity pushes the record on top of
\* the store, and an Acquire on a non-empty store returns the record on top
\* (the most recently released one) without error, removing it from the
\* store and synthesizing nothing; so Release(a), Release(b) is followed by
\* Acquire = b, Acquire = a.
C7_Lifo == [][C7_LifoStep]_vars

\* C8 (as claimed): no exhausted record is ever present in the store,
\* whoever released it: a direct caller of put_proxy, or a download attempt
\* that succeeded with the record's last permitted use.
C8_NoExhaustedInStore == \A it \in QueueItems : is_valid(it)

\* C9 (as claimed), for a pool whose candidate list was initialised: every
\* Acquire returns a ProxyItem, never None and never an exception, and the
\* returned item is not exhausted, also when the store is not empty.
C9_AcquireReturnsValid ==
    (ret.op = "get_proxy" /\ proxy_list_set) =>
        /\ ret.exc = NoExc
        /\ \E it \in held : it.id = ret.id /\ is_valid(it)

----------------------------------------------------------------------------
(* The retry decorator around an arbitrary function f, which returns or    *)
(* raises on each invocation as it pleases.                                *)

\* the run observed: the first task
RetryTask == CHOOSE t \in Tasks : \A u \in Tasks : t <= u

\* what one invocation of f does: return a value, or raise
FOutcomes == {"return", "RequestException", "ValueError", "GeventTimeout"}

\* the ExceptionToCheck arguments tried
CheckClasses == {"Exception", "RequestException"}

RetryFrame == UNCHANGED <<poolvars, held, ret, dl>>

\* caller: the decorated function is called
RetryCall ==
    /\ tasks[RetryTask].pc = "idle"
    /\ tasks' = [tasks EXCEPT ![RetryTask] = RetryEnter(@)]
    /\ RetryFrame

\* lines 50-56: the loop invokes f once
RetryInvoke ==
    LET st == tasks[RetryTask]
        n == st.calls + 1
    IN /\ st.pc = "loop"
       /\ RetryContinues(st)
       /\ \E o \in FOutcomes :
            tasks' = [tasks EXCEPT ![RetryTask] =
                        IF o = "return"
                        THEN RetryReturn([st EXCEPT !.calls = n],
                                         [NoResponse EXCEPT !.code = n])
                        ELSE RetryCaught([st EXCEPT !.calls = n], [kind |-> o, n |-> n])]
       /\ RetryFrame

\* lines 56-59: the sleep ends
RetrySleepEnds ==
    /\ tasks[RetryTask].pc = "sleep"
    /\ tasks' = [tasks EXCEPT ![RetryTask] = RetryWake(@)]
    /\ RetryFrame

\* line 62: the loop is left with the budget used up
RetryGiveUp ==
    /\ tasks[RetryTask].pc = "loop"
    /\ ~RetryContinues(tasks[RetryTask])
    /\ tasks' = [tasks EXCEPT ![RetryTask] = RetryExhausted(@)]
    /\ RetryFrame

InitRetry ==
    /\ PoolInit
    /\ held = {}
    /\ ret = NoRet
    /\ dl = NewDownloader(FALSE, SettingHttpTimeout)
    /\ \E tries \in 1..MaxTries : \E delay \in {1, 2} : \E backoff \in {1, 2, 3} :
         \E check \in CheckClasses :
            tasks = [t \in Tasks |-> IdleTask(tries, delay, backoff, check)]

NextRetry == RetryCall \/ RetryInvoke \/ RetrySleepEnds \/ RetryGiveUp

SpecRetry == InitRetry /\ [][NextRetry]_vars

\* C2: when every invocation of the wrapped function raised a retryable
\* error, the run ends by raising, after exactly `tries` invocations, the
\* error raised by the invocation numbered `tries`.
C2_RetryBound ==
    LET st == tasks[RetryTask]
    IN (st.pc = "raised" /\ Len(st.slept) = st.calls) =>
          /\ st.calls = st.tries
          /\ st.raised.n = st.tries
          /\ IsInstance(st.raised.kind, st.check)

C2_Witness ==
    LET st == tasks[RetryTask]
    IN st.pc = "raised" /\ Len(st.slept) = st.calls /\ st.tries = MaxTries
       /\ st.raised.n = MaxTries

\* C3: a finished run invoked the wrapped function at least once and at
\* most `tries` times; a run that returned did so from its last invocation,
\* which is the first successful one, with that invocation's result, and
\* every earlier invocation failed and was followed by one sleep.
C3_AtLeastOnceAtMostTries ==
    LET st == tasks[RetryTask]
    IN /\ st.calls <= st.tries
       /\ st.pc \in {"done", "raised"} => st.calls >= 1
       /\ st.pc = "done" => /\ st.result.code = st.calls
                            /\ Len(st.slept) = st.calls - 1
       /\ st.pc = "sleep" => Len(st.slept) = st.calls

C3_Witness ==
    LET st == tasks[RetryTask]
    IN st.pc = "done" /\ st.calls = 2 /\ st.tries = MaxTries /\ st.result.code = 2

----------------------------------------------------------------------------
(* Downloader (lines 202-367) *)

\* self.requests_module_kwargs (lines 232-234)
requests_module_kwargs ==
    {"params", "data", "json", "headers", "cookies", "files", "auth", "timeout",
     "allow_redirects", "proxies", "verify", "stream", "cert"}

\* The requests passed to download: a bare URL string, or a dict with the
\* given keys.
Requests ==
    { [isdict |-> FALSE, keys |-> {}, method |-> None],
      [isdict |-> TRUE, keys |-> {"url", "data"}, method |-> None] }

\* the status codes the transport answers with
StatusCodes == {200, 404, 410, 201, 500}

\* lines 301-305: kwargs.update(request), then keys are popped from kwargs
\* while kwargs.keys() is being iterated; popping any key makes the next
\* step of the iteration raise RuntimeError (dictionary changed size)
StripRaises(request) ==
    /\ request.isdict
    /\ \/ \E k \in request.keys : k \notin requests_module_kwargs
       \/ request.method # None /\ "method" \notin requests_module_kwargs

\* line 257: url = request.get("url") for a dict, else the request itself
HasUrl(request) == ~request.isdict \/ "url" \in request.keys

\* lines 289-296: keep_status_code of the attempt
KeepStatusCode(request, default) ==
    IF request.isdict
    THEN (IF "meta_keep" \in request.keys THEN TRUE ELSE default)
    ELSE FALSE

\* requests.Response.raise_for_status raises HTTPError for 4xx and 5xx
RaiseForStatus(code) == 400 <= code /\ code < 600

\* lines 309-312: whether the answer makes the attempt raise
StatusRaises(code, keep) ==
    code \notin {200, 404, 410} /\ ~keep /\ RaiseForStatus(code)

DownloadCatchesRequestOnly(kind) ==
    kind = "GeventTimeout" \/ IsInstance(kind, "RequestException")

\* lines 358-365: the except clauses of download
DownloadCatches(kind) ==
    \/ kind = "GeventTimeout"
    \/ IsInstance(kind, "Timeout")
    \/ IsInstance(kind, "RequestException")
    \/ IsInstance(kind, "Exception")

\* the locals of f_retry and _download are gone once download has its
\* answer; the history of the run (calls, slept, guards) is kept
DropLocals(st) ==
    [st EXCEPT !.mtries = 0, !.mdelay = 0, !.lastException = NoException,
               !.pending = NoException, !.proxy_item = NoItem,
               !.proxies = <<None, None>>, !.response = NoResponse,
               !.method = None, !.options = {}, !.sent = NoHeaders,
               !.keep_status_code = FALSE, !.timeout = 0, !.guard_seconds = 0]

\* lines 355-367: what download makes of the end of f_retry: the response
\* is returned, a caught exception leaves response = None
DownloadEnds(st) ==
    IF st.pc = "raised"
    THEN IF DownloadCatches(st.raised.kind)
         THEN DropLocals([st EXCEPT !.pc = "done", !.result = NoResponse,
                                    !.raised = NoException])
         ELSE DropLocals(st)
    ELSE DropLocals(st)

\* lines 260-269: the proxy map of the attempt from the pair the item gave
ProxiesOf(pair) == IF pair[2] # None THEN pair ELSE <<None, None>>

\* lines 276-277: timeout = gevent.Timeout(self.timeout + 1); timeout.start()
TimeoutStart(st) == [st EXCEPT !.guard = "armed", !.started = @ + 1]

TimeoutCancelMissing(st) == st

\* lines 340-341: finally: timeout.cancel()
TimeoutCancel(st) == [st EXCEPT !.guard = "cancelled", !.cancelled = @ + 1]

\* line 287: "POST" if "data" in kwargs else "GET", kwargs being the keyword
\* arguments download was called with (plus headers, proxies, stream, timeout)
DefaultMethod(kwargs) == IF "data" \in kwargs THEN "POST" ELSE "GET"

\* lines 291 and 298-299: the method of a dict request, when it has one,
\* replaces the default
Method(request, kwargs) ==
    IF request.isdict /\ request.method # None THEN request.method
    ELSE DefaultMethod(kwargs)

AttemptReleaseNever(queue, item, size, enable) == queue

\* lines 317-318: if self.proxy_enable: self.proxy_manager.put_proxy(proxy_item)
AttemptRelease(queue, item, size, enable) ==
    IF enable THEN PutProxy(queue, item, size) ELSE queue

\* line 333: response.close()
ResponseClose(r) == [r EXCEPT !.closed = TRUE]

\* caller: manager.init_proxy_queue() on the Downloader's pool
DlInitProxyQueue ==
    /\ dl.proxy_enable
    /\ ~proxy_list_set
    /\ \E batch \in SourceBatches :
         \E o \in InitProxyQueue(batch, proxy_queue, proxy_max_num, maxsize, nitems) :
            /\ proxy_list' = o.proxy_list
            /\ proxy_queue' = o.proxy_queue
            /\ nitems' = o.nitems
    /\ proxy_list_set' = TRUE
    /\ UNCHANGED <<proxy_max_num, maxsize, black_peoxies, held, ret, dl, tasks>>

\* caller: downloader.keep_status_code = b, before a download
DlSetKeepStatusCode(b) ==
    /\ \A t \in Tasks : tasks[t].pc = "idle"
    /\ dl.keep_status_code # b
    /\ dl' = [dl EXCEPT !.keep_status_code = b]
    /\ UNCHANGED <<poolvars, held, ret, tasks>>

HeadersUpdateIntoCaller(self_headers, headers) ==
    [self |-> self_headers, caller |-> DictUpdate(headers, self_headers)]

\* lines 352-353: headers = kwargs.get("headers", {}); self.headers.update(headers):
\* the Downloader's header dict and the caller's afterwards
HeadersUpdate(self_headers, headers) ==
    [self |-> DictUpdate(self_headers, headers), caller |-> headers]

\* caller: downloader.download(request, headers=headers, **kwargs), lines
\* 345-357 and 49; kwargs is the set of the other keywords given, all of
\* them options of requests; headers is NoHeaders when none are given
DlDownload(t, request, kwargs, headers) ==
    /\ tasks[t].pc = "idle"
    /\ LET u == HeadersUpdate(dl.headers, headers)
       IN /\ dl' = [dl EXCEPT !.headers = u.self]
          /\ tasks' = [tasks EXCEPT ![t] =
                          RetryEnter([@ EXCEPT !.request = request, !.kwargs = kwargs,
                                               !.headers = headers,
                                               !.caller_headers = u.caller])]
    /\ UNCHANGED <<poolvars, held, ret>>

\* lines 279-285 and 301: the keys of kwargs when the loop of lines 303-305
\* starts (for a dict request) or when the transport is called (bare URL)
OptionKeys(request, kwargs) ==
    kwargs \cup {"headers", "proxies", "stream", "timeout"}
    \cup (IF request.isdict
          THEN request.keys \cup (IF request.method # None THEN {"method"} ELSE {})
          ELSE {})

\* the attempt after its proxy was chosen (lines 273-306): the guard is
\* armed, the options are prepared and the transport is called with the
\* method chosen, where the task is suspended; an exception while preparing
\* leaves through the finally clause, which cancels the guard
AttemptPrepared(st, item, proxies) ==
    LET st1 == TimeoutStart([st EXCEPT !.calls = @ + 1, !.proxy_item = item,
                                       !.proxies = proxies, !.response = NoResponse,
                                       !.method = None, !.options = {},
                                       !.sent = NoHeaders,
                                       !.guard_seconds = dl.timeout + GuardSlack,
                                       !.timeout = dl.timeout,
                                       !.keep_status_code =
                                           KeepStatusCode(st.request, dl.keep_status_code)])
    IN IF StripRaises(st.request)
       THEN RetryCaught(TimeoutCancel(st1), [kind |-> "RuntimeError", n |-> st1.calls])
       ELSE [st1 EXCEPT !.pc = "transport",
                        !.method = Method(st.request, st.kwargs),
                        !.options = OptionKeys(st.request, st.kwargs),
                        !.sent = dl.headers]

\* f_retry invokes _download (lines 50-52, 256-306), up to the transport call
DlAttempt(t) ==
    LET st == tasks[t]
    IN /\ st.pc = "loop"
       /\ RetryContinues(st)
       /\ IF dl.proxy_enable
          THEN \E o \in GetProxy(proxy_queue, proxy_list, proxy_list_set, proxy_max_num,
                                nitems + 1) :
                 /\ proxy_queue' = o.proxy_queue
                 /\ proxy_list' = o.proxy_list
                 /\ nitems' = IF o.item # NoItem THEN nitems + 1 ELSE nitems
                 /\ tasks' = [tasks EXCEPT ![t] =
                      IF o.exc # NoExc
                      THEN RetryCaught([st EXCEPT !.calls = @ + 1, !.guard = "none",
                                                  !.proxy_item = NoItem,
                                                  !.proxies = <<None, None>>,
                                                  !.response = NoResponse,
                                                  !.method = None, !.options = {},
                                                  !.sent = NoHeaders,
                                                  !.keep_status_code = FALSE,
                                                  !.timeout = 0, !.guard_seconds = 0],
                                       [kind |-> o.exc, n |-> st.calls + 1])
                      ELSE LET u == ItemGetProxy(o.item)
                           IN AttemptPrepared(st, u.item, ProxiesOf(u.pair))]
          ELSE /\ tasks' = [tasks EXCEPT ![t] = AttemptPrepared(st, NoItem, <<None, None>>)]
               /\ UNCHANGED <<proxy_queue, proxy_list, nitems>>
       /\ UNCHANGED <<proxy_max_num, maxsize, proxy_list_set, black_peoxies, held, ret, dl>>

TransportOutcomesNoGuard(request) ==
    IF HasUrl(request)
    THEN { [kind |-> "response", code |-> c] : c \in StatusCodes }
         \cup { [kind |-> k, code |-> 0] : k \in {"Timeout", "RequestException"} }
    ELSE { [kind |-> "RequestException", code |-> 0] }

\* what the suspended transport call can end with: an answer, an exception
\* of requests, or the expiry of the attempt's guard (gevent.Timeout)
TransportOutcomes(request) ==
    IF HasUrl(request)
    THEN { [kind |-> "response", code |-> c] : c \in StatusCodes }
         \cup { [kind |-> k, code |-> 0] : k \in {"Timeout", "RequestException", "GeventTimeout"} }
    ELSE { [kind |-> "RequestException", code |-> 0] }

ConvertTimeoutMissing(kind) == kind

\* lines 334-336: `except gevent.Timeout: raise requests.exceptions.Timeout`;
\* every other exception leaves _download as it is
ConvertTimeout(kind) == IF kind = "GeventTimeout" THEN "Timeout" ELSE kind

\* lines 306-343: the transport call of task t ends with outcome o
DlTransportEnds(t, o) ==
    LET st == tasks[t]
        keep == st.keep_status_code
    IN /\ st.pc = "transport"
       /\ o \in TransportOutcomes(st.request)
       /\ IF o.kind = "response"
          THEN LET r == [code |-> o.code, closed |-> FALSE, proxies |-> <<None, None>>]
               IN IF StatusRaises(o.code, keep)
                  THEN /\ tasks' = [tasks EXCEPT ![t] =
                              RetryCaught(TimeoutCancel([st EXCEPT !.response = r]),
                                          [kind |-> "HTTPError", n |-> st.calls])]
                       /\ UNCHANGED proxy_queue
                  ELSE LET done == ResponseClose([r EXCEPT !.proxies = st.proxies])
                       IN /\ proxy_queue' = AttemptRelease(proxy_queue, st.proxy_item,
                                                           maxsize, dl.proxy_enable)
                          /\ tasks' = [tasks EXCEPT ![t] =
                                 DownloadEnds(RetryReturn(
                                     TimeoutCancel([st EXCEPT !.response = done]), done))]
          ELSE /\ tasks' = [tasks EXCEPT ![t] =
                      RetryCaught(TimeoutCancel(st),
                                  [kind |-> ConvertTimeout(o.kind), n |-> st.calls])]
               /\ UNCHANGED proxy_queue
       /\ UNCHANGED <<proxy_max_num, maxsize, proxy_list, proxy_list_set, black_peoxies,
                      nitems, held, ret, dl>>

\* lines 306-343: the transport call ends, in any of the ways it can
DlTransport(t) == \E o \in TransportOutcomes(tasks[t].request) : DlTransportEnds(t, o)

\* the transport call ends without the network's help: the guard expires,
\* or the call fails at once because the request has no URL
DlTransportBounded(t) ==
    \E o \in TransportOutcomes(tasks[t].request) :
        /\ o.kind = "GeventTimeout" \/ ~HasUrl(tasks[t].request)
        /\ DlTransportEnds(t, o)

\* lines 56-59: the backoff sleep of a download ends
DlSleepEnds(t) ==
    /\ tasks[t].pc = "sleep"
    /\ tasks' = [tasks EXCEPT ![t] = RetryWake(@)]
    /\ UNCHANGED <<poolvars, held, ret, dl>>

\* lines 62 and 358-367: the budget is used up, f_retry raises the last
\* exception and download handles it
DlGiveUp(t) ==
    /\ tasks[t].pc = "loop"
    /\ ~RetryContinues(tasks[t])
    /\ tasks' = [tasks EXCEPT ![t] = DownloadEnds(RetryExhausted(@))]
    /\ UNCHANGED <<poolvars, held, ret, dl>>

\* State after Downloader.__init__ (lines 207-236)
Init ==
    /\ PoolInit
    /\ held = {}
    /\ ret = NoRet
    /\ \E pe \in BOOLEAN : dl = NewDownloader(pe, SettingHttpTimeout)
    /\ tasks = [t \in Tasks |-> IdleTask(DefaultTries, DefaultDelay, DefaultBackoff, "Exception")]

\* the keyword arguments the callers of Spec pass to download: none
Kwargs == { {} }

\* and no headers
Headers == { NoHeaders }

Next ==
    \/ DlInitProxyQueue
    \/ \E t \in Tasks : \E request \in Requests : \E kwargs \in Kwargs :
          \E headers \in Headers : DlDownload(t, request, kwargs, headers)
    \/ \E t \in Tasks : DlAttempt(t)
    \/ \E t \in Tasks : DlTransport(t)
    \/ \E t \in Tasks : DlSleepEnds(t)
    \/ \E t \in Tasks : DlGiveUp(t)

Spec == Init /\ [][Next]_vars

(* One download at a time, with every shape of request and call *)

\* the requests of a single download: a bare URL, or a dict with any of the
\* keys url, data, meta (keep_status_code) and possibly a method
SingleRequests ==
    { [isdict |-> FALSE, keys |-> {}, method |-> None] }
    \cup { [isdict |-> TRUE, keys |-> k, method |-> m] :
              k \in SUBSET {"url", "data", "meta_keep"}, m \in {None, "PUT"} }

\* the keyword arguments of a single download: none, or data
SingleKwargs == SUBSET {"data"}

NextSingle ==
    \/ DlInitProxyQueue
    \/ \E b \in BOOLEAN : DlSetKeepStatusCode(b)
    \/ \E request \in SingleRequests : \E kwargs \in SingleKwargs :
          \E headers \in Headers : DlDownload(RetryTask, request, kwargs, headers)
    \/ DlAttempt(RetryTask)
    \/ DlTransport(RetryTask)
    \/ DlSleepEnds(RetryTask)
    \/ DlGiveUp(RetryTask)

SpecSingle == Init /\ [][NextSingle]_vars

\* SpecSingle under a fair scheduler: a download that can start an attempt,
\* wake from its sleep or leave the loop eventually does, and a guard fires
\* at its deadline; the network is not obliged to answer, nor the caller to
\* call
FairSingle ==
    /\ SpecSingle
    /\ WF_vars(DlAttempt(RetryTask))
    /\ WF_vars(DlTransportBounded(RetryTask))
    /\ WF_vars(DlSleepEnds(RetryTask))
    /\ WF_vars(DlGiveUp(RetryTask))

(* Downloads that give headers, on a Downloader without proxies *)

\* the request 'http://...' as a string
BareUrl == [isdict |-> FALSE, keys |-> {}, method |-> None]

\* the headers= arguments of the calls: none, a new key, a default's key
CallHeaders ==
    { NoHeaders,
      [NoHeaders EXCEPT !["Referer"] = "r1"],
      [NoHeaders EXCEPT !["User-Agent"] = "ua1"],
      [NoHeaders EXCEPT !["User-Agent"] = "ua2"] }

\* no pool is constructed (line 217); its configuration plays no part
InitHeaders == Init /\ ~dl.proxy_enable /\ proxy_max_num = 1 /\ maxsize = 1

NextHeaders ==
    \/ \E t \in Tasks : \E request \in Requests : \E headers \in CallHeaders :
          DlDownload(t, request, {}, headers)
    \/ \E t \in Tasks : DlAttempt(t)
    \/ \E t \in Tasks : DlTransport(t)
    \/ \E t \in Tasks : DlSleepEnds(t)
    \/ \E t \in Tasks : DlGiveUp(t)

SpecHeaders == InitHeaders /\ [][NextHeaders]_vars

(* One download with every shape of request, keywords and headers *)

NextArguments ==
    \/ \E request \in SingleRequests : \E kwargs \in SingleKwargs :
          \E headers \in CallHeaders : DlDownload(RetryTask, request, kwargs, headers)
    \/ DlAttempt(RetryTask)
    \/ DlTransport(RetryTask)
    \/ DlSleepEnds(RetryTask)
    \/ DlGiveUp(RetryTask)

SpecArguments == InitHeaders /\ [][NextArguments]_vars

(* One download on a Downloader constructed with any timeout *)

\* the timeout arguments given to Downloader(...)
TimeoutArgs == {-5, 0, 1, 30, 119, 120, 121, 300}

InitTimeout ==
    /\ PoolInit
    /\ held = {}
    /\ ret = NoRet
    /\ \E timeout \in TimeoutArgs : dl = NewDownloader(FALSE, timeout)
    /\ tasks = [t \in Tasks |-> IdleTask(DefaultTries, DefaultDelay, DefaultBackoff, "Exception")]

\* the keyword arguments of these downloads: none, or a timeout of the
\* caller's, which line 284 replaces by self.timeout
TimeoutKwargs == SUBSET {"timeout"}

NextTimeout ==
    \/ \E kwargs \in TimeoutKwargs : DlDownload(RetryTask, BareUrl, kwargs, NoHeaders)
    \/ DlAttempt(RetryTask)
    \/ DlTransport(RetryTask)
    \/ DlSleepEnds(RetryTask)
    \/ DlGiveUp(RetryTask)

SpecTimeout == InitTimeout /\ [][NextTimeout]_vars

(* Blacklisting through the pool API *)

NextBlack ==
    \/ CallInitProxyQueue
    \/ \E host \in BlackHosts : CallUpdateBlack(host)

SpecBlack == InitPool /\ [][NextBlack]_vars

(* Blacklisting, Acquire and a download on one pool *)

NextBlackDownload ==
    \/ CallInitProxyQueue
    \/ \E host \in BlackHosts : CallUpdateBlack(host)
    \/ DlDownload(RetryTask, BareUrl, {}, NoHeaders)
    \/ DlAttempt(RetryTask)
    \/ DlTransport(RetryTask)
    \/ DlSleepEnds(RetryTask)
    \/ DlGiveUp(RetryTask)

SpecBlackDownload == InitPool /\ [][NextBlackDownload]_vars

----------------------------------------------------------------------------
(* Properties of Downloader.download, checked under Spec *)

\* C1: download never raises; it ends after at most `tries` = 2 attempts,
\* and when both attempts failed (whatever the failure: pool error, option
\* error, transport error, timeout, HTTP status) it has made exactly 2
\* attempts and returns None, while a run whose last attempt succeeded
\* returns that attempt's response.
C1_DownloadNeverRaises ==
    \A t \in Tasks :
        LET st == tasks[t]
        IN /\ st.pc # "raised"
           /\ st.calls <= DefaultTries
           /\ st.pc = "done" =>
                IF Len(st.slept) = DefaultTries
                THEN st.result = NoResponse /\ st.calls = DefaultTries
                ELSE st.result # NoResponse /\ st.calls = Len(st.slept) + 1

C1_Witness ==
    \E t \in Tasks :
        /\ ~dl.proxy_enable
        /\ ~tasks[t].request.isdict
        /\ tasks[t].pc = "done"
        /\ tasks[t].result = NoResponse
        /\ tasks[t].calls = DefaultTries
        /\ tasks[t].slept = <<DefaultDelay, DefaultDelay * DefaultBackoff>>

\* one attempt of task t that finds the store and the candidate list empty
C10_AttemptStep(t) ==
    (/\ dl.proxy_enable
     /\ tasks[t].pc = "loop" /\ RetryContinues(tasks[t])
     /\ tasks'[t] # tasks[t]
     /\ ~tasks[t].request.isdict
     /\ proxy_queue = <<>>
     /\ proxy_list = <<>> /\ proxy_list' = <<>>) =>
        /\ tasks'[t].pc = "transport"
        /\ tasks'[t].proxy_item.host = None
        /\ tasks'[t].proxies = <<None, None>>

\* C10 (as claimed): an attempt for a bare URL that starts with the store
\* empty and gets no candidate from the source does not fail in Acquire: it
\* reaches the transport call, with a record of empty identity and no
\* proxy.
C10_EmptySourceTolerated == [][\A t \in Tasks : C10_AttemptStep(t)]_vars

C10_AttemptStepInitialised(t) == proxy_list_set => C10_AttemptStep(t)

\* C10, restricted to a pool on which init_proxy_queue has run (the
\* candidate list exists): there the attempt does proceed without proxy.
C10_ToleratedOnceInitialised == [][\A t \in Tasks : C10_AttemptStepInitialised(t)]_vars

----------------------------------------------------------------------------
(* Construction and refill of the pool *)

\* C11 (as claimed): with proxy mode enabled, before the first attempt of
\* any download the pool has pulled its initial candidate batch and the
\* store holds the records drawn from it: N = maxsize of them when the
\* candidates sufficed (some are left over in the list), never more than N,
\* each with a use count of 0.
C11_ConstructedPoolFilled ==
    (dl.proxy_enable /\ \A t \in Tasks : tasks[t].calls = 0) =>
        /\ proxy_list_set
        /\ Len(proxy_queue) <= maxsize
        /\ proxy_list # <<>> => Len(proxy_queue) = maxsize
        /\ \A it \in QueueItems : it.proxy_counter = 0

\* C11, restricted to a pool on which the owner has called init_proxy_queue
\* itself: then the store is filled as described.
C11_FilledOnceInitialised == proxy_list_set => C11_ConstructedPoolFilled

\* the candidate `c` of list `l` at 1-based position i is what item `it` was
\* made from, and `after` is l without it
DrawnFrom(it, l, i, after) ==
    /\ it.proxy_type = l[i][1]
    /\ it.host = FormatHostPort(l[i][2], l[i][3])
    /\ after = ListPop(l, i - 1)

\* one Acquire on an empty store
C12_AcquireStep ==
    (ret'.op = "get_proxy" /\ proxy_queue = <<>>) =>
        /\ ret'.exc = NoExc
        /\ \E it \in held' \ held :
             /\ it.id = ret'.id
             /\ it.proxy_counter = 0
             /\ \A h \in held : h.id # it.id
             /\ \/ it.host = None /\ proxy_list' = <<>>
                \/ \E l \in {proxy_list} \cup SourceBatches : \E i \in 1..Len(l) :
                      /\ l = proxy_list \/ Len(proxy_list) <= 1
                      /\ DrawnFrom(it, l, i, proxy_list')

\* C12 (as claimed): every Acquire on an empty store, with no Release in
\* between, returns without error a newly synthesized record, distinct from
\* the records handed out before, with use count 0, made from a candidate
\* that the call removed from the raw list (refilled first when it had run
\* down), or with an empty identity when the source had nothing.
C12_AcquireSynthesizes == [][C12_AcquireStep]_vars

C12_AcquireStepInitialised == proxy_list_set => C12_AcquireStep

\* C12, restricted to a pool whose candidate list was initialised.
C12_SynthesizesOnceInitialised == [][C12_AcquireStepInitialised]_vars

\* one Blacklist call
C13_BlacklistStep ==
    ret'.op = "update_black_peoxies" =>
        /\ black_peoxies \subseteq black_peoxies'
        /\ Cardinality(black_peoxies' \ black_peoxies) <= 1
        /\ ret'.exc = NoExc
        /\ ret'.id # NoItem.id
        /\ IF proxy_queue # <<>>
           THEN /\ ret'.id = proxy_queue[Len(proxy_queue)].id
                /\ proxy_queue' = SubSeq(proxy_queue, 1, Len(proxy_queue) - 1)
           ELSE /\ ret'.id = nitems + 1
                /\ nitems' = nitems + 1

\* C13 (as claimed): a Blacklist call adds its endpoint to the blacklist and
\* returns what Acquire returns: a ProxyItem, the top of the store (removed
\* from it) when the store is not empty, a newly synthesized one otherwise.
C13_BlacklistReturnsAcquired == [][C13_BlacklistStep]_vars

----------------------------------------------------------------------------
(* Properties of one attempt (_download), checked under SpecSingle *)

\* the end of the transport call of task t, by an answer with some code:
\* the attempt returns the response, or raises HTTPError for it
C14_ClassifyStep(t) ==
    LET keep == KeepStatusCode(tasks[t].request, dl.keep_status_code)
        returned == tasks'[t].pc = "done" /\ tasks'[t].result.code # 0
        raised == tasks'[t].pc = "sleep" /\ tasks'[t].pending.kind = "HTTPError"
    IN tasks[t].pc = "transport" =>
          /\ returned => \/ tasks'[t].result.code \in {200, 404, 410}
                         \/ keep
          /\ raised => /\ tasks'[t].response.code \notin {200, 404, 410}
                       /\ ~keep
          /\ (tasks'[t].response.code # 0 /\ tasks'[t].pc = "sleep") => raised

\* an attempt, past the choice of its proxy, of a request that has a URL and
\* for which keep_status_code is true: it gets as far as the transport call
C14_KeepStep(t) ==
    (/\ tasks[t].pc = "loop" /\ tasks'[t].started = tasks[t].started + 1
     /\ HasUrl(tasks[t].request)
     /\ KeepStatusCode(tasks[t].request, dl.keep_status_code)) =>
        tasks'[t].pc = "transport"

\* C14 (as claimed): an answer with code 200, 404 or 410 is returned; an
\* answer with any other code is returned, code intact, exactly when
\* keep_status_code is true for the attempt, and otherwise makes the
\* attempt raise an HTTP-status error.
C14_StatusClassification ==
    [][C14_ClassifyStep(RetryTask) /\ C14_KeepStep(RetryTask)]_vars

\* the codes for which raise_for_status raises are treated as C14 says
C14_ErrorCodesStep(t) ==
    (tasks[t].pc = "transport" /\ tasks'[t].pc = "done" /\ tasks'[t].result.code # 0) =>
        ~RaiseForStatus(tasks'[t].result.code) \/ tasks'[t].result.code \in {404, 410}

\* C14, for 4xx and 5xx codes only: none of them other than 404 and 410
\* is ever returned (no attempt that gets an answer has keep_status_code
\* true, because the request that sets it fails before the transport call).
C14_ErrorCodesRaise == [][C14_ErrorCodesStep(RetryTask)]_vars

\* the method the claim expects for a request
C16_ExpectedMethod(request, kwargs) ==
    IF request.isdict /\ request.method # None THEN request.method
    ELSE IF "data" \in kwargs \/ (request.isdict /\ "data" \in request.keys)
         THEN "POST" ELSE "GET"

\* an attempt of task t that got past the choice of its proxy
C16_MethodStep(t) ==
    (tasks[t].pc = "loop" /\ tasks'[t].started = tasks[t].started + 1) =>
        /\ tasks'[t].pc = "transport"
        /\ tasks'[t].method = C16_ExpectedMethod(tasks[t].request, tasks[t].kwargs)

\* C16 (as claimed): every attempt calls the transport, and with this
\* method: the explicit method of a structured request when it has one,
\* else POST when the request or the call carries a body (data), else GET.
C16_MethodSelection == [][C16_MethodStep(RetryTask)]_vars

C16_BareUrlStep(t) == ~tasks[t].request.isdict => C16_MethodStep(t)

\* C16, for bare-URL requests only: POST when the call carries data, else GET.
C16_BareUrlMethod == [][C16_BareUrlStep(RetryTask)]_vars

\* C19 (as claimed): once an attempt that obtained a response has exited,
\* by returning or by raising, the stream of that response is closed.
C19_ResponseClosedOnExit ==
    \A t \in Tasks :
        /\ (tasks[t].pc # "transport" /\ tasks[t].response.code # 0) =>
              tasks[t].response.closed
        /\ tasks[t].result.code # 0 => tasks[t].result.closed

\* C19, for the attempts that return: the response download hands to its
\* caller is closed.
C19_ReturnedResponseClosed ==
    \A t \in Tasks : tasks[t].result.code # 0 => tasks[t].result.closed

\* the end of the transport call of task t, and what it does to the store
C20_ReleaseStep(t) ==
    (dl.proxy_enable /\ tasks[t].pc = "transport" /\ tasks'[t] # tasks[t]) =>
        IF tasks'[t].pc = "done" /\ tasks'[t].result.code # 0
        THEN /\ Len(proxy_queue) < maxsize * QueueFactor
             /\ proxy_queue' = Append(proxy_queue, tasks[t].proxy_item)
        ELSE /\ tasks'[t].pc = "sleep"
             /\ proxy_queue' = proxy_queue
             /\ \A it \in QueueItems' : it.id # tasks[t].proxy_item.id

\* C20: with proxy mode enabled, the attempt that returns a response has
\* pushed the record it acquired onto the store in the step that returns,
\* and an attempt that raises after the transport call (timeout, transport
\* error, HTTP status) leaves the store as it was, its record not in it;
\* the store grows by no other step of a download.
C20_ReleaseIffSuccess ==
    /\ [][C20_ReleaseStep(RetryTask)]_vars
    /\ [][(Len(proxy_queue') > Len(proxy_queue) /\ proxy_list_set)
            => (tasks[RetryTask].pc = "transport" /\ tasks'[RetryTask].pc = "done")]_vars

C20_Witness ==
    /\ dl.proxy_enable
    /\ tasks[RetryTask].pc = "done"
    /\ tasks[RetryTask].result.code = 200
    /\ tasks[RetryTask].result.proxies # <<None, None>>
    /\ Len(tasks[RetryTask].slept) = 1
    /\ tasks[RetryTask].started = 2
    /\ nitems = 2
    /\ Len(proxy_queue) = 1
    /\ proxy_queue[1].id = 2

----------------------------------------------------------------------------
(* Properties of concurrent and repeated downloads, checked under Spec *)

\* the guards that are armed
LiveGuards == { t \in Tasks : tasks[t].guard = "armed" }

\* C15: a guard is armed exactly while its attempt is suspended in the
\* transport call; every attempt that started a guard has cancelled it
\* exactly once by the time it returns or raises (started = cancelled for
\* every task outside the transport call), so that no guard is live once no
\* attempt is in flight.
C15_GuardReleasedOnce ==
    /\ \A t \in Tasks :
          /\ tasks[t].guard = "armed" <=> tasks[t].pc = "transport"
          /\ tasks[t].started = tasks[t].cancelled
                                  + (IF tasks[t].pc = "transport" THEN 1 ELSE 0)
          /\ tasks[t].started <= tasks[t].calls
    /\ (\A t \in Tasks : tasks[t].pc \in {"idle", "done"}) => LiveGuards = {}

C15_Witness ==
    /\ LiveGuards = {}
    /\ \A t \in Tasks : tasks[t].pc = "done"
    /\ \E t \in Tasks : /\ tasks[t].result = NoResponse
                        /\ tasks[t].started = DefaultTries
                        /\ tasks[t].cancelled = DefaultTries
                        /\ tasks[t].request.isdict
    /\ \E t \in Tasks : /\ tasks[t].result.code = 200
                        /\ tasks[t].started = DefaultTries
                        /\ tasks[t].cancelled = DefaultTries

\* the records the attempts of the downloads hold
InFlight == { t \in Tasks : tasks[t].proxy_item # NoItem }

\* no record is held by two attempts, stored twice, or stored while held
NoSharedRecord ==
    /\ \A t \in InFlight : \A u \in InFlight :
          t # u => tasks[t].proxy_item.id # tasks[u].proxy_item.id
    /\ \A i \in 1..Len(proxy_queue) : \A j \in 1..Len(proxy_queue) :
          i # j => proxy_queue[i].id # proxy_queue[j].id
    /\ \A t \in InFlight : \A it \in QueueItems : it.id # tasks[t].proxy_item.id

\* C17 (as claimed): under every interleaving of the downloads the store
\* never holds more than its capacity N = maxsize, no record is held by two
\* attempts at once, and no record is in the store twice or while an
\* attempt holds it.
C17_ConcurrentPoolSafe ==
    /\ Len(proxy_queue) <= maxsize
    /\ NoSharedRecord

\* C17 without the capacity: records are never shared, and the store stays
\* within the size its queue was created with.
C17_RecordsNeverShared ==
    /\ Len(proxy_queue) <= maxsize * QueueFactor
    /\ NoSharedRecord

----------------------------------------------------------------------------
(* Termination of a download, checked under FairSingle *)

\* C18: under the fair scheduler a download that was called returns to its
\* caller (a response or None), whatever the request and the state of the
\* pool, even if the network never answers any of its attempts: Acquire does
\* not wait on the empty store, each attempt ends at the latest when its
\* guard fires, and the loop makes at most `tries` attempts.
C18_DownloadReturns ==
    (tasks[RetryTask].pc # "idle") ~> (tasks[RetryTask].pc = "done")

C18_Witness ==
    /\ dl.proxy_enable
    /\ proxy_queue = <<>>
    /\ tasks[RetryTask].pc = "done"
    /\ ~tasks[RetryTask].request.isdict
    /\ tasks[RetryTask].result = NoResponse
    /\ tasks[RetryTask].calls = DefaultTries
    /\ tasks[RetryTask].cancelled = DefaultTries

----------------------------------------------------------------------------
(* The backoff schedule and the non-retryable failures, checked under      *)
(* SpecRetry                                                               *)

RECURSIVE Pow(_, _)
Pow(b, e) == IF e = 0 THEN 1 ELSE b * Pow(b, e - 1)

\* C26: in a run with initial delay d and factor f the sleep that follows
\* the k-th failed invocation lasts d * f^(k-1), and the delay in force
\* after k failures is d * f^k; a run that has not started, or has just been
\* entered, has slept nothing (the schedule starts from d in every run).
C26_BackoffSchedule ==
    LET st == tasks[RetryTask]
    IN /\ \A k \in 1..Len(st.slept) : st.slept[k] = st.delay * Pow(st.backoff, k - 1)
       /\ st.pc = "loop" => st.mdelay = st.delay * Pow(st.backoff, Len(st.slept))
       /\ st.pc = "idle" => st.slept = <<>>

C26_Witness ==
    LET st == tasks[RetryTask]
    IN /\ st.delay = 2 /\ st.backoff = 3
       /\ st.slept = <<2, 6, 18>>

\* C26 for the downloads: each of them, whatever the others do, sleeps
\* DefaultDelay after its first failed attempt and DefaultDelay *
\* DefaultBackoff after its second.
C26_PerDownloadSchedule ==
    \A t \in Tasks : \A k \in 1..Len(tasks[t].slept) :
        tasks[t].slept[k] = DefaultDelay * Pow(DefaultBackoff, k - 1)

\* C27: when an invocation raises an exception that is not an
\* ExceptionToCheck, the run ends at once by raising that exception: the
\* function is not invoked again, nothing is slept for it, and the budget
\* and the delay are what the earlier (retryable) failures left.
C27_NonRetryablePropagates ==
    LET st == tasks[RetryTask]
    IN (st.pc = "raised" /\ ~IsInstance(st.raised.kind, st.check)) =>
          /\ st.raised.n = st.calls
          /\ Len(st.slept) = st.calls - 1
          /\ st.mtries = st.tries - (st.calls - 1)
          /\ st.mdelay = st.delay * Pow(st.backoff, st.calls - 1)
          /\ st.mtries > 0

C27_Witness ==
    LET st == tasks[RetryTask]
    IN /\ st.pc = "raised"
       /\ st.check = "RequestException"
       /\ st.raised = [kind |-> "ValueError", n |-> 2]
       /\ st.tries = MaxTries
       /\ st.slept = <<st.delay>>

\* C30: every failed (retryable) invocation is followed by exactly one
\* sleep, the last one included: a run whose `tries` invocations all failed
\* has slept `tries` times, the last time for delay * backoff^(tries-1),
\* before it raises the last error.
C30_SleepAfterEveryFailure ==
    LET st == tasks[RetryTask]
    IN /\ st.pc \in {"loop", "sleep"} => Len(st.slept) = st.calls
       /\ (st.pc = "raised" /\ IsInstance(st.raised.kind, st.check)) =>
             /\ st.calls = st.tries
             /\ Len(st.slept) = st.tries
             /\ st.slept[st.tries] = st.delay * Pow(st.backoff, st.tries - 1)

C30_Witness ==
    LET st == tasks[RetryTask]
    IN /\ st.pc = "raised"
       /\ st.tries = 2 /\ st.delay = 1 /\ st.backoff = 2
       /\ st.calls = 2
       /\ st.slept = <<1, 2>>
       /\ st.raised.n = 2

----------------------------------------------------------------------------
(* The options and the keepStatusCode flag of one attempt, checked under   *)
(* SpecSingle                                                              *)

\* an attempt of task t that got past the choice of its proxy in this step
AttemptStarts(t) ==
    /\ tasks[t].pc = "loop"
    /\ tasks'[t].started = tasks[t].started + 1

\* the attempt of a dict request is dispatched, with its options cut down to
\* the whitelist
C23_StripStep(t) ==
    AttemptStarts(t) /\ tasks[t].request.isdict =>
        /\ tasks'[t].pc = "transport"
        /\ tasks'[t].options =
              OptionKeys(tasks[t].request, tasks[t].kwargs) \cap requests_module_kwargs

\* C23 (as claimed): for a structured request the keys outside the whitelist
\* (url, method, meta, ...) are stripped from the options and the attempt
\* still calls the transport, with whitelisted option keys only.
C23_StrippedAndDispatched == [][\A t \in Tasks : C23_StripStep(t)]_vars

\* What holds: whenever the transport is called its option keys are all in
\* the whitelist, and a dict request reaches the transport only when none of
\* its keys had to be stripped.
C23_OptionsWhitelisted ==
    \A t \in Tasks : tasks[t].pc = "transport" =>
        /\ tasks[t].options \subseteq requests_module_kwargs
        /\ tasks[t].request.isdict =>
              /\ tasks[t].request.keys \subseteq requests_module_kwargs
              /\ tasks[t].request.method = None

\* the flag the attempt is said to use: the override of the request if it
\* carries one, the Downloader's default otherwise
C24_ExpectedKeep(request) ==
    IF request.isdict /\ "meta_keep" \in request.keys THEN TRUE
    ELSE dl.keep_status_code

C24_KeepFlagStep(t) ==
    AttemptStarts(t) => tasks'[t].keep_status_code = C24_ExpectedKeep(tasks[t].request)

\* C24 (as claimed): the keepStatusCode flag of an attempt is the request's
\* meta.keep_status_code when it carries one, else the Downloader's
\* keep_status_code, for a bare URL as well as for a dict request.
C24_KeepFlag == [][\A t \in Tasks : C24_KeepFlagStep(t)]_vars

\* What holds: the claimed flag for every dict request; a bare URL has the
\* flag false whatever the Downloader's default is.
C24_KeepFlagOfDict ==
    [][\A t \in Tasks : AttemptStarts(t) =>
          tasks'[t].keep_status_code =
              (tasks[t].request.isdict /\ C24_ExpectedKeep(tasks[t].request))]_vars

----------------------------------------------------------------------------
(* The timeout of the Downloader and of its attempts, checked under        *)
(* SpecTimeout                                                             *)

\* C29: for every timeout t given at construction the Downloader's timeout
\* is t when 0 < t <= 120 and 30 otherwise; every attempt passes this value
\* to the transport and arms its guard with one second more, so the guard
\* expires strictly later than the transport's own timeout.
C29_TimeoutClamped ==
    /\ dl.timeout = IF 0 < dl.timeout_arg /\ dl.timeout_arg <= 120
                    THEN dl.timeout_arg ELSE 30
    /\ \A t \in Tasks : tasks[t].pc = "transport" =>
          /\ tasks[t].timeout = dl.timeout
          /\ tasks[t].guard_seconds = dl.timeout + 1
          /\ tasks[t].guard_seconds > tasks[t].timeout

\* the second attempt of a download is in its transport call, on a
\* Downloader constructed with timeout 120, the largest value kept
C29_Witness ==
    /\ dl.timeout_arg = 120
    /\ tasks[RetryTask].pc = "transport"
    /\ tasks[RetryTask].calls = 2
    /\ "timeout" \in tasks[RetryTask].kwargs
    /\ tasks[RetryTask].timeout = 120
    /\ tasks[RetryTask].guard_seconds = 121

\* a timeout above the limit was given and the attempt runs with 30 and 31
C29_WitnessFallback ==
    /\ dl.timeout_arg = 121
    /\ tasks[RetryTask].pc = "transport"
    /\ tasks[RetryTask].timeout = 30
    /\ tasks[RetryTask].guard_seconds = 31

----------------------------------------------------------------------------
(* The headers of concurrent and consecutive downloads, checked under      *)
(* SpecHeaders, and the arguments of a download, under SpecArguments       *)

\* C22 (as claimed): the headers sent for a download are the defaults of
\* the construction overlaid by the headers of that call, in every attempt
\* and however the calls interleave; the headers of another call never
\* appear in it and the Downloader's defaults stay what they were.
C22_HeadersPerCall ==
    /\ dl.headers = DefaultHeaders
    /\ \A t \in Tasks : tasks[t].pc = "transport" =>
          tasks[t].sent = DictUpdate(DefaultHeaders, tasks[t].headers)

\* What holds: every attempt sends the Downloader's header dict as it is
\* when the attempt calls the transport, and a key is only ever set or
\* replaced in that dict, never removed.
C22_SendsSharedHeaders ==
    /\ [][\A t \in Tasks : AttemptStarts(t) /\ tasks'[t].pc = "transport" =>
              tasks'[t].sent = dl.headers]_vars
    /\ [](\A k \in HeaderKeys : DefaultHeaders[k] # None => dl.headers[k] # None)

\* C28: after a download was called, in every state up to and after its
\* end (an answer or a failure, with retries or not), the request and the
\* keyword arguments of the caller are what was passed, and the caller's
\* headers dict has the content it had at the call.
C28_StepKeepsArguments ==
    \A t \in Tasks : tasks[t].pc # "idle" =>
        /\ tasks'[t].request = tasks[t].request
        /\ tasks'[t].kwargs = tasks[t].kwargs
        /\ tasks'[t].headers = tasks[t].headers
        /\ tasks'[t].caller_headers = tasks[t].caller_headers

C28_CallerArgumentsUnchanged ==
    /\ [](\A t \in Tasks : tasks[t].caller_headers = tasks[t].headers)
    /\ [][C28_StepKeepsArguments]_vars

\* a download of a dict request with a header of its own has failed after
\* two attempts; the Downloader's header dict took the header, the caller's
\* dict is as it was
C28_Witness ==
    \E t \in Tasks :
        /\ tasks[t].pc = "done"
        /\ tasks[t].calls = 2
        /\ tasks[t].request.isdict
        /\ "url" \in tasks[t].request.keys
        /\ "data" \in tasks[t].kwargs
        /\ tasks[t].headers["Referer"] = "r1"
        /\ tasks[t].caller_headers = tasks[t].headers
        /\ dl.headers["Referer"] = "r1"

----------------------------------------------------------------------------
(* The expiry of an attempt's guard among concurrent downloads, checked    *)
(* under Spec                                                              *)

\* the guard of the attempt of task t expires during the transport call
C21_ExpiryStep(t) ==
    DlTransportEnds(t, [kind |-> "GeventTimeout", code |-> 0]) =>
        /\ tasks'[t].pc = "sleep"
        /\ tasks'[t].pending.kind = "Timeout"
        /\ IsInstance(tasks'[t].pending.kind, tasks[t].check)
        /\ tasks'[t].guard = "cancelled"
        /\ tasks'[t].cancelled = tasks[t].cancelled + 1
        /\ tasks'[t].mtries = tasks[t].mtries
        /\ \A u \in Tasks \ {t} : tasks'[u] = tasks[u]

\* what the retry loop of task t does next: another attempt while the
\* budget lasts, whose guard is a new one, and the failed end only without
\* budget
C21_LoopStep(t) ==
    tasks[t].pc = "loop" /\ tasks'[t] # tasks[t] =>
        IF tasks[t].mtries > 0
        THEN /\ tasks'[t].calls = tasks[t].calls + 1
             /\ tasks'[t].pc = "transport" =>
                   /\ tasks'[t].guard = "armed"
                   /\ tasks'[t].started = tasks[t].started + 1
                   /\ tasks'[t].started = tasks'[t].cancelled + 1
        ELSE /\ tasks'[t].pc = "done"
             /\ tasks'[t].result = NoResponse

\* C21: the expiry of an attempt's guard ends that attempt only, as a
\* Timeout failure the retrier catches: the download goes on to its backoff
\* sleep with its budget as it was, starts a further attempt with a guard of
\* its own while budget is left, and ends as failed only when all its
\* attempts were made; the other downloads and their guards are untouched.
C21_ExpiryCancelsOneAttempt ==
    /\ [][\A t \in Tasks : C21_ExpiryStep(t) /\ C21_LoopStep(t)]_vars
    /\ [](\A t \in Tasks : tasks[t].pc = "done" /\ tasks[t].result = NoResponse =>
              tasks[t].calls = tasks[t].tries)

\* a download is in the transport call of its second attempt, the first
\* having ended by a Timeout, under its second guard, while another
\* download is still in its first attempt under the guard armed before
C21_Witness ==
    \E t, u \in Tasks :
        /\ t # u
        /\ tasks[t].pc = "transport"
        /\ tasks[t].calls = 2
        /\ tasks[t].lastException.kind = "Timeout"
        /\ tasks[t].started = 2
        /\ tasks[t].cancelled = 1
        /\ tasks[u].pc = "transport"
        /\ tasks[u].guard = "armed"
        /\ tasks[u].started = 1
        /\ tasks[u].cancelled = 0

----------------------------------------------------------------------------
(* The blacklist and what the pool hands out, checked under                *)
(* SpecBlackDownload                                                       *)

\* the draws that the candidate list allows now, whatever the blacklist
\* holds: any entry of the list, or of a newly fetched batch when at most
\* one entry is left
C25_Draws ==
    LET reloaded == IF Len(proxy_list) <= 1 THEN SourceBatches ELSE {proxy_list}
    IN UNION { { [pair |-> <<l[i][1], FormatHostPort(l[i][2], l[i][3])>>,
                  proxy_list |-> ListPop(l, i - 1)] : i \in 1..Len(l) } : l \in reloaded }

\* a Blacklist call can return each of these draws
C25_BlacklistCallDraws ==
    proxy_list_set =>
        \A c \in C25_Draws :
            ENABLED (/\ \E host \in BlackHosts : CallUpdateBlack(host)
                     /\ ret'.pair = c.pair
                     /\ proxy_list' = c.proxy_list)

\* the Acquire of an attempt on an empty store can synthesize a record for
\* each of these draws
C25_AcquireDraws ==
    /\ proxy_list_set
    /\ proxy_queue = <<>>
    /\ tasks[RetryTask].pc = "loop"
    /\ tasks[RetryTask].mtries > 0
    => \A c \in C25_Draws :
           ENABLED (/\ DlAttempt(RetryTask)
                    /\ tasks'[RetryTask].proxies = c.pair
                    /\ proxy_list' = c.proxy_list)

\* C25: the blacklist is a passive log.  In every state of the pool, with
\* any content of the blacklist, a Blacklist call and the Acquire of an
\* attempt can hand out every endpoint the candidate list allows, a
\* blacklisted one included; and no step of a download changes the
\* blacklist.
C25_BlacklistPassive ==
    /\ [](C25_BlacklistCallDraws /\ C25_AcquireDraws)
    /\ [][black_peoxies' # black_peoxies => tasks' = tasks]_vars

\* an attempt of a download is in its transport call behind a proxy whose
\* endpoint is in the blacklist
C25_Witness ==
    /\ tasks[RetryTask].pc = "transport"
    /\ tasks[RetryTask].proxies[2] # None
    /\ tasks[RetryTask].proxies[2] \in black_peoxies

====
